---- MODULE Spec2Model ----
(***************************************************************************)
(* cupyx/scipy/linalg/_matfuncs.py: khatri_rao and expm.                   *)
(*                                                                         *)
(* Array elements are binary floating-point numbers with float64's         *)
(* exponent range and a significand of Prec bits, rounded to nearest even, *)
(* with inf and nan.  Arrays are heap objects so that in-place operators   *)
(* (/=, *=) act on the object a name is bound to.                          *)
(***************************************************************************)
EXTENDS Integers, Sequences, FiniteSets, TLC

------------------------------------------------------------------------------
(* Bounds of the model *)

\* bits of significand carried by a float
Prec == 10
\* largest number of rows / columns of an input array
MaxN == 3

\* float64: largest binary exponent of a finite value
EMax == 1023
EMin == 1 - EMax

------------------------------------------------------------------------------
(* Floating point *)

Pow2(k) == 2^k
Sign(n) == IF n < 0 THEN -1 ELSE IF n > 0 THEN 1 ELSE 0
AbsI(n) == IF n < 0 THEN -n ELSE n
MinI(p, q) == IF p < q THEN p ELSE q

Zero == [k |-> "fin", m |-> 0, e |-> 0]
NaN == [k |-> "nan", m |-> 0, e |-> 0]
Inf(sg) == [k |-> "inf", m |-> sg, e |-> 0]

IsNaN(x) == x.k = "nan"
IsInf(x) == x.k = "inf"
IsFin(x) == x.k = "fin"

RECURSIVE BitLen(_)
BitLen(n) == IF n = 0 THEN 0 ELSE 1 + BitLen(n \div 2)

\* a finite value sg * m * 2^e with m of exactly Prec bits; overflow gives inf,
\* underflow is flushed to zero
Pack(sg, m, e) ==
    IF e + Prec - 1 > EMax THEN Inf(sg)
    ELSE IF e + Prec - 1 < EMin THEN Zero
    ELSE [k |-> "fin", m |-> sg * m, e |-> e]

\* sg * n * 2^e rounded to Prec bits, ties to even
Round(sg, n, e) ==
    IF n = 0 THEN Zero
    ELSE LET d == BitLen(n) - Prec
         IN IF d <= 0 THEN Pack(sg, n * Pow2(-d), e + d)
            ELSE LET q == n \div Pow2(d)
                     r == n % Pow2(d)
                     half == Pow2(d - 1)
                     q1 == IF r > half \/ (r = half /\ q % 2 = 1) THEN q + 1 ELSE q
                 IN IF q1 = Pow2(Prec) THEN Pack(sg, Pow2(Prec - 1), e + d + 1)
                    ELSE Pack(sg, q1, e + d)

FromInt(n) == Round(Sign(n), AbsI(n), 0)
One == FromInt(1)

FNeg(x) == IF IsNaN(x) THEN NaN ELSE [x EXCEPT !.m = -x.m]
FAbs(x) == IF IsNaN(x) THEN NaN ELSE [x EXCEPT !.m = AbsI(x.m)]

FMul(x, y) ==
    IF IsNaN(x) \/ IsNaN(y) THEN NaN
    ELSE IF IsInf(x) \/ IsInf(y)
         THEN IF x.m = 0 \/ y.m = 0 THEN NaN ELSE Inf(Sign(x.m) * Sign(y.m))
         ELSE Round(Sign(x.m) * Sign(y.m), AbsI(x.m) * AbsI(y.m), x.e + y.e)

FAdd(x, y) ==
    IF IsNaN(x) \/ IsNaN(y) THEN NaN
    ELSE IF IsInf(x) THEN (IF IsInf(y) /\ y.m # x.m THEN NaN ELSE x)
    ELSE IF IsInf(y) THEN y
    ELSE IF x.m = 0 THEN y
    ELSE IF y.m = 0 THEN x
    ELSE IF x.e - y.e > Prec + 2 THEN x
    ELSE IF y.e - x.e > Prec + 2 THEN y
    ELSE LET lo == MinI(x.e, y.e)
             n == x.m * Pow2(x.e - lo) + y.m * Pow2(y.e - lo)
         IN Round(Sign(n), AbsI(n), lo)

FSub(x, y) == FAdd(x, FNeg(y))

\* the float written mant * 10^p10 in decimal, p10 >= 0
Dec(mant, p10) == FMul(FromInt(mant), FromInt(10^p10))

FDiv(x, y) ==
    IF IsNaN(x) \/ IsNaN(y) THEN NaN
    ELSE IF IsInf(x) THEN (IF IsInf(y) THEN NaN
                           ELSE Inf(x.m * (IF y.m < 0 THEN -1 ELSE 1)))
    ELSE IF IsInf(y) THEN Zero
    ELSE IF y.m = 0 THEN (IF x.m = 0 THEN NaN ELSE Inf(Sign(x.m)))
    ELSE IF x.m = 0 THEN Zero
    ELSE LET n == AbsI(x.m) * Pow2(Prec + 2)
             q == n \div AbsI(y.m)
             sticky == IF n % AbsI(y.m) = 0 THEN 0 ELSE 1
         IN Round(Sign(x.m) * Sign(y.m), 2 * q + sticky, x.e - y.e - Prec - 3)

\* |x| < |y| for x, y not nan
MagLt(x, y) ==
    IF IsInf(x) THEN FALSE
    ELSE IF IsInf(y) THEN TRUE
    ELSE IF x.m = 0 THEN y.m # 0
    ELSE IF y.m = 0 THEN FALSE
    ELSE x.e < y.e \/ (x.e = y.e /\ AbsI(x.m) < AbsI(y.m))

FLt(x, y) ==
    /\ ~IsNaN(x)
    /\ ~IsNaN(y)
    /\ \/ Sign(x.m) < Sign(y.m)
       \/ Sign(x.m) = 1 /\ Sign(y.m) = 1 /\ MagLt(x, y)
       \/ Sign(x.m) = -1 /\ Sign(y.m) = -1 /\ MagLt(y, x)

FGt(x, y) == FLt(y, x)
FLe(x, y) == ~IsNaN(x) /\ ~IsNaN(y) /\ ~FLt(y, x)

\* 2^p as a float
FPow2(p) == Pack(1, Pow2(Prec - 1), p - Prec + 1)

------------------------------------------------------------------------------
(* Arrays: a shape and the elements, a flat sequence in row-major order *)

\* the r x c array with the given rows
Arr(r, c, rows) ==
    [shape |-> <<r, c>>,
     v |-> [p \in 1..(r * c) |-> rows[((p - 1) \div c) + 1][((p - 1) % c) + 1]]]

NDim(a) == Len(a.shape)
Size(a) == IF NDim(a) = 1 THEN a.shape[1] ELSE a.shape[1] * a.shape[2]
Rows(a) == a.shape[1]
Cols(a) == a.shape[2]

\* X[i, j] of a 2-D array, indices from 1
El(X, i, j) == X.v[(i - 1) * Cols(X) + j]
RowsOf(X) == [i \in 1..Rows(X) |-> [j \in 1..Cols(X) |-> El(X, i, j)]]

\* sum of f[1..len], left to right; the sum of nothing is 0
RECURSIVE FSum(_, _)
FSum(f, len) == IF len = 0 THEN Zero ELSE FAdd(FSum(f, len - 1), f[len])

\* max propagates nan
FMax(x, y) == IF IsNaN(x) \/ IsNaN(y) THEN NaN ELSE IF FLt(x, y) THEN y ELSE x
RECURSIVE FMaxSeq(_, _)
FMaxSeq(f, len) ==
    IF len = 0 THEN Zero
    ELSE IF len = 1 THEN f[1]
    ELSE FMax(FMaxSeq(f, len - 1), f[len])

Eye(nn) ==
    Arr(nn, nn, [i \in 1..nn |-> [j \in 1..nn |-> IF i = j THEN One ELSE Zero]])
Zeros(r, c) == Arr(r, c, [i \in 1..r |-> [j \in 1..c |-> Zero]])

\* scalar * array, array / scalar, array + array, -array (equal shapes, 2-D)
SMul(c, X) ==
    Arr(Rows(X), Cols(X),
        [i \in 1..Rows(X) |-> [j \in 1..Cols(X) |-> FMul(c, El(X, i, j))]])
SDiv(X, c) ==
    Arr(Rows(X), Cols(X),
        [i \in 1..Rows(X) |-> [j \in 1..Cols(X) |-> FDiv(El(X, i, j), c)]])
MAdd(X, Y) ==
    Arr(Rows(X), Cols(X),
        [i \in 1..Rows(X) |-> [j \in 1..Cols(X) |-> FAdd(El(X, i, j), El(Y, i, j))]])
MNeg(X) ==
    Arr(Rows(X), Cols(X),
        [i \in 1..Rows(X) |-> [j \in 1..Cols(X) |-> FNeg(El(X, i, j))]])

\* X @ Y for 2-D operands; the inner dimensions must agree
CanMatMul(X, Y) == Cols(X) = Rows(Y)
MatMul(X, Y) ==
    Arr(Rows(X), Cols(Y),
        [i \in 1..Rows(X) |->
           [j \in 1..Cols(Y) |->
              FSum([l \in 1..Cols(X) |-> FMul(El(X, i, l), El(Y, l, j))], Cols(X))]])

\* broadcasting of an array of one or two dimensions against a 2-D array
BShape(a) == IF NDim(a) = 1 THEN <<1, a.shape[1]>> ELSE a.shape
CanBroadcast(sa, sb) ==
    \A d \in 1..2 : sa[d] = sb[d] \/ sa[d] = 1 \/ sb[d] = 1
BDim(p, q) == IF p = 1 THEN q ELSE p
At(a, i, j) ==
    IF NDim(a) = 1 THEN a.v[IF a.shape[1] = 1 THEN 1 ELSE j]
    ELSE El(a, IF Rows(a) = 1 THEN 1 ELSE i, IF Cols(a) = 1 THEN 1 ELSE j)
BSub(a, M) ==
    LET r == BDim(BShape(a)[1], Rows(M))
        c == BDim(BShape(a)[2], Cols(M))
    IN Arr(r, c,
           [i \in 1..r |-> [j \in 1..c |-> FSub(At(a, i, j), At(M, i, j))]])

\* cupy.diag(a).sum(): the diagonal of a 2-D array, summed; of a 1-D array, the
\* sum of the square matrix that has the array on its diagonal
DiagSum(a) ==
    IF NDim(a) = 1 THEN FSum(a.v, a.shape[1])
    ELSE LET len == MinI(Rows(a), Cols(a))
         IN FSum([i \in 1..len |-> El(a, i, i)], len)

\* cupy.linalg.norm(A, ord=1): the largest column sum of absolute values
Norm1(A) ==
    FMaxSeq([j \in 1..Cols(A) |->
                FSum([i \in 1..Rows(A) |-> FAbs(El(A, i, j))], Rows(A))],
            Cols(A))

------------------------------------------------------------------------------
(* Module globals of _matfuncs.py *)

\* b: the coefficients of the [13/13] Pade approximant, b[0] first
BTable ==
    << Dec(647647525, 8), Dec(323823762, 8), Dec(777177030, 7),
       Dec(118735379, 7), Dec(129060195, 6), Dec(105594705, 5),
       Dec(670442572, 3), Dec(335221286, 2), Dec(1323241920, 0),
       Dec(40840800, 0), Dec(960960, 0), Dec(16380, 0), Dec(182, 0),
       Dec(1, 0) >>

\* th13 = 5.37
Th13 == FDiv(FromInt(537), FromInt(100))

\* b[i] with the source's indices, which start at 0
B(bb, i) == bb[i + 1]

------------------------------------------------------------------------------
(* The steps of expm *)

\* a.size == 0
IsEmptyNever(a) == FALSE
IsEmpty(a) == Size(a) = 0

\* mu = cupy.diag(a).sum() / n
TraceMean(a, nn) == FDiv(DiagSum(a), FromInt(nn))

\* cupy.eye(n)*mu
ShiftMatrix(nn, mu) == SMul(mu, Eye(nn))

\* math.ceil(math.log2(q)) for a finite q > 0
CeilLog2(q) == IF AbsI(q.m) = Pow2(Prec - 1) THEN q.e + Prec - 1 ELSE q.e + Prec

\* scale = nrmA > th13; s = int(math.ceil(math.log2(float(nrmA) / th13))) + 1
\* or s = 1.  math.ceil of an infinite float raises OverflowError.
ScaleExponentNoFloor(nrm, th) ==
    IF FGt(nrm, th)
    THEN LET q == FDiv(nrm, th)
         IN IF IsInf(q) THEN [raises |-> TRUE, s |-> 0]
            ELSE [raises |-> FALSE, s |-> CeilLog2(q)]
    ELSE [raises |-> FALSE, s |-> 0]
ScaleExponent(nrm, th) ==
    IF FGt(nrm, th)
    THEN LET q == FDiv(nrm, th)
         IN IF IsInf(q) THEN [raises |-> TRUE, s |-> 0]
            ELSE [raises |-> FALSE, s |-> CeilLog2(q) + 1]
    ELSE [raises |-> FALSE, s |-> 1]

\* A / 2**s
Scaled(A, s) == SDiv(A, FPow2(s))

\* u = A @ (A6 @ (b[13]*A6 + b[11]*A4 + b[9]*A2)
\*          + b[7]*A6 + b[5]*A4 + b[3]*A2 + b[1]*E)
PadeU(A, bb) ==
    LET A2 == MatMul(A, A)
        A4 == MatMul(A2, A2)
        A6 == MatMul(A2, A4)
        E == Eye(Rows(A))
        inner == MAdd(MAdd(SMul(B(bb, 13), A6), SMul(B(bb, 11), A4)),
                      SMul(B(bb, 9), A2))
        u == MAdd(MAdd(MAdd(MAdd(MatMul(A6, inner), SMul(B(bb, 7), A6)),
                            SMul(B(bb, 5), A4)),
                       SMul(B(bb, 3), A2)),
                  SMul(B(bb, 1), E))
    IN MatMul(A, u)

\* v = A6 @ (b[12]*A6 + b[10]*A4 + b[8]*A)
\*     + b[6]*A6 + b[4]*A4 + b[2]*A2 + b[0]*E
PadeV(A, bb) ==
    LET A2 == MatMul(A, A)
        A4 == MatMul(A2, A2)
        A6 == MatMul(A2, A4)
        E == Eye(Rows(A))
        inner == MAdd(MAdd(SMul(B(bb, 12), A6), SMul(B(bb, 10), A4)),
                      SMul(B(bb, 8), A))
    IN MAdd(MAdd(MAdd(MAdd(MatMul(A6, inner), SMul(B(bb, 6), A6)),
                      SMul(B(bb, 4), A4)),
                 SMul(B(bb, 2), A2)),
            SMul(B(bb, 0), E))

------------------------------------------------------------------------------
(* cupy.linalg.solve: LU factorisation with partial pivoting, then forward   *)
(* and back substitution.  A zero pivot means the coefficient matrix is     *)
(* singular and the solve fails.                                           *)

RowAxpy(r1, f, r2) == [j \in DOMAIN r1 |-> FSub(r1[j], FMul(f, r2[j]))]

\* the first row among p..Len(M) with the largest |M[row][col]|
RECURSIVE PivotRow(_, _, _, _)
PivotRow(M, col, p, best) ==
    IF p > Len(M) THEN best
    ELSE PivotRow(M, col, p + 1,
                  IF ~IsNaN(M[p][col]) /\ ~IsNaN(M[best][col])
                     /\ MagLt(M[best][col], M[p][col])
                  THEN p ELSE best)

RECURSIVE Eliminate(_, _, _)
Eliminate(M, R, col) ==
    IF col > Len(M) THEN [singular |-> FALSE, M |-> M, R |-> R]
    ELSE LET p == PivotRow(M, col, col + 1, col)
             M1 == [M EXCEPT ![col] = M[p], ![p] = M[col]]
             R1 == [R EXCEPT ![col] = R[p], ![p] = R[col]]
             piv == M1[col][col]
         IN IF IsFin(piv) /\ piv.m = 0
            THEN [singular |-> TRUE, M |-> M1, R |-> R1]
            ELSE Eliminate(
                   [i \in DOMAIN M1 |->
                      IF i > col
                      THEN RowAxpy(M1[i], FDiv(M1[i][col], piv), M1[col])
                      ELSE M1[i]],
                   [i \in DOMAIN R1 |->
                      IF i > col
                      THEN RowAxpy(R1[i], FDiv(M1[i][col], piv), R1[col])
                      ELSE R1[i]],
                   col + 1)

\* R[i] minus the sum over j = from..Len(M) of M[i][j] * X[j]
RECURSIVE Residual(_, _, _, _, _)
Residual(M, R, X, i, from) ==
    IF from > Len(M) THEN R[i]
    ELSE RowAxpy(Residual(M, R, X, i, from + 1), M[i][from], X[from])

RECURSIVE BackSubstitute(_, _, _, _)
BackSubstitute(M, R, X, i) ==
    IF i = 0 THEN X
    ELSE LET acc == Residual(M, R, X, i, i + 1)
         IN BackSubstitute(M, R,
                           [X EXCEPT ![i] = [j \in DOMAIN acc |->
                                               FDiv(acc[j], M[i][i])]],
                           i - 1)

Solve(P, Q) ==
    LET el == Eliminate(RowsOf(P), RowsOf(Q), 1)
    IN IF el.singular THEN [singular |-> TRUE, x |-> Q]
       ELSE [singular |-> FALSE,
             x |-> Arr(Rows(Q), Cols(Q),
                       BackSubstitute(el.M, el.R, RowsOf(Q), Rows(P)))]

------------------------------------------------------------------------------
(* math.exp: argument reduction x = j*ln2 + r, a polynomial in r, and a     *)
(* final scaling by 2^j.  A finite argument whose exponential overflows     *)
(* raises OverflowError; the caller tests for it.                           *)

Ln2 == FDiv(FromInt(693147), FromInt(1000000))

\* the largest integer <= x, for a finite x of moderate size
FloorInt(x) ==
    IF x.e >= 0 THEN x.m * Pow2(x.e)
    ELSE IF -x.e > 2 * Prec THEN (IF x.m < 0 THEN -1 ELSE 0)
    ELSE x.m \div Pow2(-x.e)

RECURSIVE ExpPoly(_, _)
ExpPoly(r, i) ==
    IF i > 8 THEN One
    ELSE FAdd(One, FMul(FDiv(r, FromInt(i)), ExpPoly(r, i + 1)))

ExpF(x) ==
    IF IsNaN(x) THEN NaN
    ELSE IF IsInf(x) THEN (IF x.m > 0 THEN Inf(1) ELSE Zero)
    ELSE IF FGt(x, FromInt(710)) THEN Inf(1)
    ELSE IF FLt(x, FromInt(-746)) THEN Zero
    ELSE LET j == FloorInt(FAdd(FDiv(x, Ln2), FDiv(One, FromInt(2))))
             r == FSub(x, FMul(FromInt(j), Ln2))
             p == ExpPoly(r, 1)
         IN Pack(1, p.m, p.e + j)

ExpRaises(x) == IsFin(x) /\ IsInf(ExpF(x))

------------------------------------------------------------------------------
(* The steps of khatri_rao *)

\* _util._assert_2d(a) passes
Assert2d(a) == NDim(a) = 2

\* a.shape[1] != b.shape[1]
ColumnsDifferByRows(a, bb) == a.shape[1] # bb.shape[1]
ColumnsDiffer(a, bb) == a.shape[2] # bb.shape[2]

\* a[..., :, cupy.newaxis, :] * b[..., cupy.newaxis, :, :] has shape (n, m, k);
\* the last axes broadcast against each other
CanOuter(a, bb) == Cols(a) = Cols(bb) \/ Cols(a) = 1 \/ Cols(bb) = 1
Outer(a, bb) ==
    LET mm == Rows(bb)
        kk == BDim(Cols(a), Cols(bb))
    IN [shape |-> <<Rows(a), mm, kk>>,
        v |-> [p \in 1..(Rows(a) * mm * kk) |->
                 FMul(At(a, ((p - 1) \div (mm * kk)) + 1, ((p - 1) % kk) + 1),
                      At(bb, (((p - 1) \div kk) % mm) + 1, ((p - 1) % kk) + 1))]]

\* c.reshape((-1,) + c.shape[2:]): the same elements under a new shape.  The
\* -1 is inferred as size / shape[2], which a last axis of length 0 leaves
\* undetermined
CanInferRows(c) == c.shape[3] # 0
Reshaped(c) ==
    [shape |-> <<Len(c.v) \div c.shape[3], c.shape[3]>>, v |-> c.v]

------------------------------------------------------------------------------
(* Arguments of the calls *)

Vals == {Zero, One, FromInt(-3), FromInt(8), FromInt(1000), Inf(1), NaN}

Fill(r, c, x) == Arr(r, c, [i \in 1..r |-> [j \in 1..c |-> x]])
Corner(r, c, x) ==
    Arr(r, c, [i \in 1..r |-> [j \in 1..c |-> IF i = 1 /\ j = c THEN x ELSE Zero]])
Diagonal(r, c, x) ==
    Arr(r, c, [i \in 1..r |-> [j \in 1..c |-> IF i = j THEN x ELSE Zero]])
Vec(len, x) == [shape |-> <<len>>, v |-> [j \in 1..len |-> x]]
VecLast(len, x) ==
    [shape |-> <<len>>, v |-> [j \in 1..len |-> IF j = len THEN x ELSE Zero]]

ExpmInputs ==
    UNION {{Fill(r, c, x), Corner(r, c, x), Diagonal(r, c, x)} :
              <<r, c, x>> \in (0..MaxN) \X (0..MaxN) \X Vals}
    \cup UNION {{Vec(len, x), VecLast(len, x)} : <<len, x>> \in (0..MaxN) \X Vals}

\* arrays of distinct small integers
Counting(r, c, first) ==
    Arr(r, c, [i \in 1..r |-> [j \in 1..c |-> FromInt(first + (i - 1) * c + j)]])

KhatriRaoInputs ==
    {Counting(r, c, first) : <<r, c, first>> \in (0..MaxN) \X (0..MaxN) \X {0, -5}}
    \cup {Vec(MaxN, One)}

------------------------------------------------------------------------------
(* State *)

VARIABLES
    pc,       \* idle, done (the call is over), or the line of expm about to run
    callee,   \* the function called last
    args,     \* the values the arguments had when the call was made
    heap,     \* the array objects; the arguments come first
    env,      \* the local names of the call, each bound to an object or to 0
    n, mu, nrmA, s, iter,   \* the scalar locals of expm; iter counts the loop
    b, th13,  \* the module globals
    trace,    \* the stages the call has entered, in order
    outcome   \* how the call ended

vars == <<pc, callee, args, heap, env, n, mu, nrmA, s, iter, b, th13, trace, outcome>>

NoEnv == [a |-> 0, b |-> 0, A |-> 0, u |-> 0, v |-> 0, x |-> 0, c |-> 0]
NoOutcome == [kind |-> "none", ref |-> 0, err |-> "", line |-> 0]
Return(ref) == [kind |-> "return", ref |-> ref, err |-> "", line |-> 0]
Raise(err, line) == [kind |-> "raise", ref |-> 0, err |-> err, line |-> line]

\* name = <expression>: the value is a new object
Bind(h, val) == [heap |-> Append(h, val), ref |-> Len(h) + 1]

\* A = a - cupy.eye(n)*mu: the difference is a new object
BindShiftedInPlace(h, aref, val) == [heap |-> [h EXCEPT ![aref] = val], ref |-> aref]
BindShifted(h, aref, val) == Bind(h, val)

\* for _ in range(s): the loop is over
SquaringDoneEarly(done, count) == done >= count - 1
SquaringDone(done, count) == done >= count

\* math.exp(mu)
UnshiftFactorNoExp(m) == m
UnshiftFactor(m) == ExpF(m)

Init ==
    /\ pc = "idle"
    /\ callee = "none"
    /\ args = <<>>
    /\ heap = <<>>
    /\ env = NoEnv
    /\ n = 0
    /\ mu = Zero
    /\ nrmA = Zero
    /\ s = 0
    /\ iter = 0
    /\ b = BTable
    /\ th13 = Th13
    /\ trace = <<>>
    /\ outcome = NoOutcome

------------------------------------------------------------------------------
(* khatri_rao(a, b), lines 31-39 *)

KhatriRao(a0, b0) ==
    /\ pc = "idle"
    /\ pc' = "done"
    /\ callee' = "khatri_rao"
    /\ args' = <<a0, b0>>
    /\ env' = [NoEnv EXCEPT !.a = 1, !.b = 2, !.c = 3]
    /\ IF ~Assert2d(a0) \/ ~Assert2d(b0)
       THEN /\ heap' = <<a0, b0>>
            /\ trace' = <<>>
            /\ outcome' = Raise("DimensionError", IF ~Assert2d(a0) THEN 31 ELSE 32)
       ELSE IF ColumnsDiffer(a0, b0)
       THEN /\ heap' = <<a0, b0>>
            /\ trace' = <<>>
            /\ outcome' = Raise("DimensionError", 35)
       ELSE IF ~CanOuter(a0, b0)
       THEN /\ heap' = <<a0, b0>>
            /\ trace' = <<"product">>
            /\ outcome' = Raise("DimensionError", 38)
       ELSE IF ~CanInferRows(Outer(a0, b0))
       THEN /\ heap' = <<a0, b0, Outer(a0, b0)>>
            /\ trace' = <<"product", "reshape">>
            /\ outcome' = Raise("ReshapeError", 39)
       ELSE /\ heap' = <<a0, b0, Outer(a0, b0), Reshaped(Outer(a0, b0))>>
            /\ trace' = <<"product", "reshape">>
            /\ outcome' = Return(4)
    /\ n' = 0
    /\ mu' = Zero
    /\ nrmA' = Zero
    /\ s' = 0
    /\ iter' = 0
    /\ UNCHANGED <<b, th13>>

------------------------------------------------------------------------------
(* expm(a), lines 87-131 *)

CallExpm(a0) ==
    /\ pc = "idle"
    /\ pc' = "l87"
    /\ callee' = "expm"
    /\ args' = <<a0>>
    /\ heap' = <<a0>>
    /\ env' = [NoEnv EXCEPT !.a = 1]
    /\ n' = 0
    /\ mu' = Zero
    /\ nrmA' = Zero
    /\ s' = 0
    /\ iter' = 0
    /\ trace' = <<>>
    /\ outcome' = NoOutcome
    /\ UNCHANGED <<b, th13>>

\* lines 87-88
ExpmEmpty ==
    /\ pc = "l87"
    /\ IsEmpty(heap[env.a])
    /\ heap' = Append(heap, Zeros(0, 0))
    /\ outcome' = Return(Len(heap) + 1)
    /\ pc' = "done"
    /\ UNCHANGED <<callee, args, env, n, mu, nrmA, s, iter, b, th13, trace>>

\* lines 90-94
ExpmShift ==
    /\ pc = "l87"
    /\ ~IsEmpty(heap[env.a])
    /\ LET a == heap[env.a]
           nn == a.shape[1]
           m == TraceMean(a, nn)
       IN /\ n' = nn
          /\ mu' = m
          /\ IF CanBroadcast(BShape(a), <<nn, nn>>)
             THEN LET new == BindShifted(heap, env.a, BSub(a, ShiftMatrix(nn, m)))
                  IN /\ heap' = new.heap
                     /\ env' = [env EXCEPT !.A = new.ref]
                     /\ pc' = "l97"
                     /\ outcome' = outcome
             ELSE /\ pc' = "done"
                  /\ outcome' = Raise("DimensionError", 94)
                  /\ UNCHANGED <<heap, env>>
    /\ trace' = Append(trace, "shift")
    /\ UNCHANGED <<callee, args, nrmA, s, iter, b, th13>>

\* line 97
ExpmNorm ==
    /\ pc = "l97"
    /\ nrmA' = Norm1(heap[env.A])
    /\ pc' = "l99"
    /\ trace' = Append(trace, "norm")
    /\ UNCHANGED <<callee, args, heap, env, n, mu, s, iter, b, th13, outcome>>

\* lines 99-103
ExpmScale ==
    /\ pc = "l99"
    /\ LET chosen == ScaleExponent(nrmA, th13)
       IN IF chosen.raises
          THEN /\ pc' = "done"
               /\ outcome' = Raise("OverflowError", 101)
               /\ s' = s
          ELSE /\ pc' = "l105"
               /\ outcome' = outcome
               /\ s' = chosen.s
    /\ trace' = Append(trace, "scale")
    /\ UNCHANGED <<callee, args, heap, env, n, mu, nrmA, iter, b, th13>>

\* line 105: A /= 2**s, in place
ExpmDivide ==
    /\ pc = "l105"
    /\ heap' = [heap EXCEPT ![env.A] = Scaled(@, s)]
    /\ pc' = "l108"
    /\ trace' = Append(trace, "divide")
    /\ UNCHANGED <<callee, args, env, n, mu, nrmA, s, iter, b, th13, outcome>>

\* lines 108-119; A @ A needs a square A
ExpmPade ==
    /\ pc = "l108"
    /\ LET A == heap[env.A]
       IN IF CanMatMul(A, A)
          THEN /\ heap' = heap \o <<PadeU(A, b), PadeV(A, b)>>
               /\ env' = [env EXCEPT !.u = Len(heap) + 1, !.v = Len(heap) + 2]
               /\ pc' = "l121"
               /\ outcome' = outcome
          ELSE /\ pc' = "done"
               /\ outcome' = Raise("DimensionError", 108)
               /\ UNCHANGED <<heap, env>>
    /\ trace' = Append(trace, "pade")
    /\ UNCHANGED <<callee, args, n, mu, nrmA, s, iter, b, th13>>

\* lines 121-124: r13 = solve(-u + v, u + v); x = r13
ExpmSolve ==
    /\ pc = "l121"
    /\ LET u == heap[env.u]
           v == heap[env.v]
           r13 == Solve(MAdd(MNeg(u), v), MAdd(u, v))
       IN IF r13.singular
          THEN /\ pc' = "done"
               /\ outcome' = Raise("SingularMatrixError", 121)
               /\ UNCHANGED <<heap, env>>
          ELSE /\ heap' = Bind(heap, r13.x).heap
               /\ env' = [env EXCEPT !.x = Bind(heap, r13.x).ref]
               /\ pc' = "l125"
               /\ outcome' = outcome
    /\ iter' = 0
    /\ trace' = Append(trace, "solve")
    /\ UNCHANGED <<callee, args, n, mu, nrmA, s, b, th13>>

\* lines 125-126: one pass of the loop, x = x @ x
ExpmSquare ==
    /\ pc = "l125"
    /\ ~SquaringDone(iter, s)
    /\ heap' = Bind(heap, MatMul(heap[env.x], heap[env.x])).heap
    /\ env' = [env EXCEPT !.x = Len(heap) + 1]
    /\ iter' = iter + 1
    /\ trace' = Append(trace, "square")
    /\ UNCHANGED <<pc, callee, args, n, mu, nrmA, s, b, th13, outcome>>

\* line 129: x *= math.exp(mu), in place; math.exp raises OverflowError when
\* the exponential of a finite argument is out of range
ExpmUnshift ==
    /\ pc = "l125"
    /\ SquaringDone(iter, s)
    /\ IF ExpRaises(mu)
       THEN /\ pc' = "done"
            /\ outcome' = Raise("OverflowError", 129)
            /\ heap' = heap
       ELSE /\ pc' = "l131"
            /\ outcome' = outcome
            /\ heap' = [heap EXCEPT ![env.x] = SMul(UnshiftFactor(mu), @)]
    /\ trace' = Append(trace, "unshift")
    /\ UNCHANGED <<callee, args, env, n, mu, nrmA, s, iter, b, th13>>

\* line 131
ExpmReturn ==
    /\ pc = "l131"
    /\ pc' = "done"
    /\ outcome' = Return(env.x)
    /\ UNCHANGED <<callee, args, heap, env, n, mu, nrmA, s, iter, b, th13, trace>>

\* the caller drops the call's objects and goes on to its next call
Resume ==
    /\ pc = "done"
    /\ pc' = "idle"
    /\ callee' = "none"
    /\ args' = <<>>
    /\ heap' = <<>>
    /\ env' = NoEnv
    /\ n' = 0
    /\ mu' = Zero
    /\ nrmA' = Zero
    /\ s' = 0
    /\ iter' = 0
    /\ trace' = <<>>
    /\ outcome' = NoOutcome
    /\ UNCHANGED <<b, th13>>

Next ==
    \/ \E a0 \in ExpmInputs : CallExpm(a0)
    \/ ExpmEmpty
    \/ ExpmShift
    \/ ExpmNorm
    \/ ExpmScale
    \/ ExpmDivide
    \/ ExpmPade
    \/ ExpmSolve
    \/ ExpmSquare
    \/ ExpmUnshift
    \/ ExpmReturn
    \/ \E a0 \in KhatriRaoInputs : \E b0 \in KhatriRaoInputs : KhatriRao(a0, b0)
    \/ Resume

Spec == Init /\ [][Next]_vars

------------------------------------------------------------------------------
(* Properties *)

Ended(f) == pc = "done" /\ callee = f
IsSquare2d(a) == NDim(a) = 2 /\ Rows(a) = Cols(a)
Squarings(count) == [j \in 1..count |-> "square"]
AfterScale == {"l105", "l108", "l121", "l125", "l131"}

\* C1: expm on an input that is not 2-D or not square fails with
\* DimensionError before any stage has run, and never returns a matrix.
C1_BadShapeRejectedFirst ==
    (Ended("expm") /\ ~IsSquare2d(args[1]))
        => /\ outcome.kind = "raise"
           /\ outcome.err = "DimensionError"
           /\ trace = <<>>

\* C2: every call of expm ends with a returned matrix, with DimensionError or
\* with SingularMatrixError, and with nothing else; an inf or nan norm and an
\* overflowing exp(mu) raise no other error.  Stated for the square 2-D
\* inputs, where no DimensionError is due.
C2_OnlyThreeOutcomes ==
    (Ended("expm") /\ IsSquare2d(args[1]))
        => \/ outcome.kind = "return"
           \/ /\ outcome.kind = "raise"
              /\ outcome.err \in {"DimensionError", "SingularMatrixError"}

\* No call of this model reaches a solve whose coefficient matrix -u + v is
\* singular.
SolveNeverFails == outcome.err # "SingularMatrixError"

\* C4: expm on a 0x0 input returns a 0x0 array without error and without
\* entering any stage.
C4_EmptyReturnsAtOnce ==
    (callee = "expm" /\ args[1].shape = <<0, 0>>)
        => /\ trace = <<>>
           /\ pc \in {"l87", "done"}
           /\ pc = "done" => /\ outcome.kind = "return"
                             /\ heap[outcome.ref].shape = <<0, 0>>

C4_EmptyReturned ==
    Ended("expm") /\ args[1].shape = <<0, 0>> /\ outcome.kind = "return"

\* C5: at every point of every call the arguments hold the values they had
\* when the call was made, and b and th13 hold their initial values.
C5_NoSideEffects ==
    /\ b = BTable
    /\ th13 = Th13
    /\ \A p \in 1..Len(args) : heap[p] = args[p]

C5_InPlaceStepsRan ==
    /\ Ended("expm")
    /\ outcome.kind = "return"
    /\ IsFin(mu)
    /\ mu # Zero
    /\ s >= 2
    /\ heap[env.A] # args[1]

\* C6: expm of the n x n zero matrix, n >= 1, is the n x n identity, reached
\* with mu = 0, s = 1, u = 0 and v = b[0]*I.
C6_ZeroGivesIdentity ==
    (/\ Ended("expm")
     /\ IsSquare2d(args[1])
     /\ Rows(args[1]) >= 1
     /\ args[1] = Zeros(Rows(args[1]), Rows(args[1])))
        => /\ outcome.kind = "return"
           /\ heap[outcome.ref] = Eye(Rows(args[1]))
           /\ mu = Zero
           /\ s = 1
           /\ heap[env.u] = Zeros(n, n)
           /\ heap[env.v] = SMul(B(b, 0), Eye(n))

C6_ZeroExponentiated ==
    Ended("expm") /\ args[1] = Zeros(2, 2) /\ outcome.kind = "return"

\* C7: khatri_rao of a 2-D a of shape (n, k) and a 2-D b of shape (m, k)
\* returns an array of shape (n*m, k) whose row i*m + l holds a[i,j]*b[l,j]
\* in column j, and leaves a and b as they were.
C7_ProductOfColumns ==
    (/\ Ended("khatri_rao")
     /\ NDim(args[1]) = 2
     /\ NDim(args[2]) = 2
     /\ Cols(args[1]) = Cols(args[2]))
        => /\ outcome.kind = "return"
           /\ heap[outcome.ref].shape
                 = <<Rows(args[1]) * Rows(args[2]), Cols(args[1])>>
           /\ \A i \in 1..Rows(args[1]) : \A l \in 1..Rows(args[2]) :
                 \A j \in 1..Cols(args[1]) :
                    El(heap[outcome.ref], (i - 1) * Rows(args[2]) + l, j)
                       = FMul(El(args[1], i, j), El(args[2], l, j))
           /\ heap[1] = args[1]
           /\ heap[2] = args[2]

\* The same for inputs with at least one column.
ProductOfNonEmptyColumns ==
    (Ended("khatri_rao") /\ NDim(args[1]) = 2 /\ NDim(args[2]) = 2
     /\ Cols(args[1]) = Cols(args[2]) /\ Cols(args[1]) >= 1)
        => /\ outcome.kind = "return"
           /\ heap[outcome.ref].shape
                 = <<Rows(args[1]) * Rows(args[2]), Cols(args[1])>>
           /\ \A i \in 1..Rows(args[1]) : \A l \in 1..Rows(args[2]) :
                 \A j \in 1..Cols(args[1]) :
                    El(heap[outcome.ref], (i - 1) * Rows(args[2]) + l, j)
                       = FMul(El(args[1], i, j), El(args[2], l, j))

\* C8: khatri_rao of two 2-D inputs with different numbers of columns raises
\* DimensionError before the product is formed and returns nothing.
C8_ColumnMismatchRaises ==
    (/\ Ended("khatri_rao")
     /\ NDim(args[1]) = 2
     /\ NDim(args[2]) = 2
     /\ Cols(args[1]) # Cols(args[2]))
        => /\ outcome.kind = "raise"
           /\ outcome.err = "DimensionError"
           /\ trace = <<>>
           /\ Len(heap) = 2

C8_MismatchRaised ==
    /\ Ended("khatri_rao")
    /\ NDim(args[1]) = 2
    /\ NDim(args[2]) = 2
    /\ Cols(args[1]) # Cols(args[2])
    /\ Rows(args[1]) = Rows(args[2])
    /\ Rows(args[1]) >= 1
    /\ outcome.kind = "raise"

\* C9: once expm has chosen s, s >= 1; and when the 1-norm of the shifted
\* matrix is finite, s - 1 is the least integer p with norm/th13 <= 2^p if
\* norm > th13, s = 1 otherwise, and the 1-norm of the matrix divided by 2^s
\* is at most th13.
C9_ScaleExponent ==
    (callee = "expm" /\ pc \in AfterScale)
        => /\ s >= 1
           /\ IsFin(nrmA)
                => /\ IF FGt(nrmA, th13)
                      THEN /\ FLt(FPow2(s - 2), FDiv(nrmA, th13))
                           /\ FLe(FDiv(nrmA, th13), FPow2(s - 1))
                      ELSE s = 1
                   /\ pc # "l105" => FLe(Norm1(heap[env.A]), th13)

C9_ScaledDown ==
    /\ callee = "expm"
    /\ pc = "l108"
    /\ IsFin(nrmA)
    /\ FGt(nrmA, th13)
    /\ s >= 3

\* C10: a call of expm on a non-empty input that returns has run shift, norm,
\* scale, divide, pade and solve once each in this order, then exactly s
\* squarings, then unshift once; the matrix was divided by 2^s for that same s.
C10_StagesInOrder ==
    (Ended("expm") /\ outcome.kind = "return" /\ ~IsEmpty(args[1]))
        => /\ trace = <<"shift", "norm", "scale", "divide", "pade", "solve">>
                         \o Squarings(s) \o <<"unshift">>
           /\ iter = s
           /\ heap[env.A] = Scaled(BSub(args[1], ShiftMatrix(n, mu)), s)

C10_SquaredAndReturned ==
    /\ Ended("expm")
    /\ outcome.kind = "return"
    /\ ~IsEmpty(args[1])
    /\ s >= 3
    /\ iter = s

====
